---- MODULE Spec2Model ----
(***************************************************************************)
(* Model of examples/agent/no_mic/main.py: the WAV header function          *)
(* create_wav_header, the main flow of main(), the keep-alive thread        *)
(* send_keep_alive and the two audio event handlers.                        *)
(***************************************************************************)
EXTENDS Integers, Sequences, FiniteSets, TLC

VARIABLES
    api_key,        \* os.getenv("DEEPGRAM_API_KEY"): "unset", "empty" or "set"
    pc,             \* position of the main flow inside main()
    conn,           \* the connection object: "none", "created", "started", "failed", "finished"
    options,        \* the SettingsOptions audio output fields, once configured
    handlers,       \* events for which connection.on has registered a handler
    calls,          \* operations the main flow invoked on the connection, in order
    downloaded,     \* requests.get has been invoked
    chunks,         \* chunks still to come from response.iter_content
    ka,             \* keep-alive thread: "unstarted", "sleeping", "dead"
    ka_sends,       \* number of connection.send calls made by the keep-alive thread
    ka_sent_when,   \* values of conn at the moment of each keep-alive send
    ka_last,        \* outcome of the latest keep-alive send
    audio_buffer,   \* nonlocal audio_buffer
    file_counter,   \* nonlocal file_counter
    files,          \* the writes of output-<n>.wav files, in order
    events,         \* the AudioData / AgentAudioDone events dispatched so far
    printed,        \* what main's flow printed about failures, in order
    raised,         \* every exception raised so far, with the thread that raised it
    hdr_args,       \* arguments of a direct call of create_wav_header
    hdr_result      \* result of that call

vars == <<api_key, pc, conn, options, handlers, calls, downloaded, chunks,
          ka, ka_sends, ka_sent_when, ka_last, audio_buffer, file_counter,
          files, events, printed, raised, hdr_args, hdr_result>>

script_vars == <<api_key, pc, conn, options, handlers, calls, downloaded, chunks,
                 ka, ka_sends, ka_sent_when, ka_last, audio_buffer, file_counter,
                 files, events, printed, raised>>

-----------------------------------------------------------------------------
(* Bounds of the model *)

MaxChannels == 3
MaxChunks == 2
MaxKeepAlives == 2
MaxEvents == 4

-----------------------------------------------------------------------------
(* Bytes and byte strings *)

RIFF == <<82, 73, 70, 70>>
WAVE == <<87, 65, 86, 69>>
FMT  == <<102, 109, 116, 32>>
DATA == <<100, 97, 116, 97>>

Pow256(k) == IF k = 0 THEN 1 ELSE IF k = 1 THEN 256 ELSE IF k = 2 THEN 65536 ELSE 16777216

\* bytearray(n): n zero bytes
bytearray(n) == [i \in 1..n |-> 0]

\* int.to_bytes(length, 'little') raises OverflowError for a negative value or
\* one that needs more than length bytes. Every integer of the model is below
\* 2^31, so a non-negative one always fits 4 bytes.
to_bytes_fits(n, length) == n >= 0 /\ (length >= 4 \/ n < Pow256(length))

to_bytes(n, length) == [i \in 1..length |-> (n \div Pow256(i - 1)) % 256]

\* the value of a little-endian field
from_bytes(b) == IF Len(b) = 2 THEN b[1] + 256 * b[2]
                 ELSE b[1] + 256 * b[2] + 65536 * b[3] + 16777216 * b[4]

\* h[a:b] = v on a bytearray (0-based, b exclusive): the slice is replaced by
\* v whatever the length of v
SetSlice(h, a, b, v) == SubSeq(h, 1, a) \o v \o SubSeq(h, b + 1, Len(h))

\* h[a:b]
Slice(h, a, b) == SubSeq(h, a + 1, b)

-----------------------------------------------------------------------------
(* create_wav_header *)

DefaultSampleRate == 24000
DefaultBitsPerSample == 16
DefaultChannels == 1

OverflowError == [ok |-> FALSE, bytes |-> <<>>]

create_wav_header_no_channels(sample_rate, bits_per_sample, channels) ==
    LET byte_rate   == sample_rate * (bits_per_sample \div 8)
        block_align == channels * (bits_per_sample \div 8)
        h1  == SetSlice(bytearray(44), 0, 4, RIFF)
        h2  == SetSlice(h1, 4, 8, <<0, 0, 0, 0>>)
        h3  == SetSlice(h2, 8, 12, WAVE)
        h4  == SetSlice(h3, 12, 16, FMT)
        h5  == SetSlice(h4, 16, 20, <<16, 0, 0, 0>>)
        h6  == SetSlice(h5, 20, 22, <<1, 0>>)
        h7  == SetSlice(h6, 22, 24, to_bytes(channels, 2))
        h8  == SetSlice(h7, 24, 28, to_bytes(sample_rate, 4))
        h9  == SetSlice(h8, 28, 32, to_bytes(byte_rate, 4))
        h10 == SetSlice(h9, 32, 34, to_bytes(block_align, 2))
        h11 == SetSlice(h10, 34, 36, to_bytes(bits_per_sample, 2))
        h12 == SetSlice(h11, 36, 40, DATA)
        h13 == SetSlice(h12, 40, 44, <<0, 0, 0, 0>>)
    IN  IF ~to_bytes_fits(channels, 2) THEN OverflowError
        ELSE IF ~to_bytes_fits(sample_rate, 4) THEN OverflowError
        ELSE IF ~to_bytes_fits(byte_rate, 4) THEN OverflowError
        ELSE IF ~to_bytes_fits(block_align, 2) THEN OverflowError
        ELSE IF ~to_bytes_fits(bits_per_sample, 2) THEN OverflowError
        ELSE [ok |-> TRUE, bytes |-> h13]

create_wav_header_short_tag(sample_rate, bits_per_sample, channels) ==
    LET byte_rate   == sample_rate * channels * (bits_per_sample \div 8)
        block_align == channels * (bits_per_sample \div 8)
        h1  == SetSlice(bytearray(44), 0, 4, RIFF)
        h2  == SetSlice(h1, 4, 8, <<0, 0, 0, 0>>)
        h3  == SetSlice(h2, 8, 12, WAVE)
        h4  == SetSlice(h3, 12, 16, <<102, 109, 116>>)
        h5  == SetSlice(h4, 16, 20, <<16, 0, 0, 0>>)
        h6  == SetSlice(h5, 20, 22, <<1, 0>>)
        h7  == SetSlice(h6, 22, 24, to_bytes(channels, 2))
        h8  == SetSlice(h7, 24, 28, to_bytes(sample_rate, 4))
        h9  == SetSlice(h8, 28, 32, to_bytes(byte_rate, 4))
        h10 == SetSlice(h9, 32, 34, to_bytes(block_align, 2))
        h11 == SetSlice(h10, 34, 36, to_bytes(bits_per_sample, 2))
        h12 == SetSlice(h11, 36, 40, DATA)
        h13 == SetSlice(h12, 40, 44, <<0, 0, 0, 0>>)
    IN  IF ~to_bytes_fits(channels, 2) THEN OverflowError
        ELSE IF ~to_bytes_fits(sample_rate, 4) THEN OverflowError
        ELSE IF ~to_bytes_fits(byte_rate, 4) THEN OverflowError
        ELSE IF ~to_bytes_fits(block_align, 2) THEN OverflowError
        ELSE IF ~to_bytes_fits(bits_per_sample, 2) THEN OverflowError
        ELSE [ok |-> TRUE, bytes |-> h13]

\* The header is built by slice assignments on a 44-byte array; a to_bytes
\* call that raises ends the function with OverflowError, in the order of the
\* source (lines 198-202).
create_wav_header(sample_rate, bits_per_sample, channels) ==
    LET byte_rate   == sample_rate * channels * (bits_per_sample \div 8)
        block_align == channels * (bits_per_sample \div 8)
        h1  == SetSlice(bytearray(44), 0, 4, RIFF)
        h2  == SetSlice(h1, 4, 8, <<0, 0, 0, 0>>)
        h3  == SetSlice(h2, 8, 12, WAVE)
        h4  == SetSlice(h3, 12, 16, FMT)
        h5  == SetSlice(h4, 16, 20, <<16, 0, 0, 0>>)
        h6  == SetSlice(h5, 20, 22, <<1, 0>>)
        h7  == SetSlice(h6, 22, 24, to_bytes(channels, 2))
        h8  == SetSlice(h7, 24, 28, to_bytes(sample_rate, 4))
        h9  == SetSlice(h8, 28, 32, to_bytes(byte_rate, 4))
        h10 == SetSlice(h9, 32, 34, to_bytes(block_align, 2))
        h11 == SetSlice(h10, 34, 36, to_bytes(bits_per_sample, 2))
        h12 == SetSlice(h11, 36, 40, DATA)
        h13 == SetSlice(h12, 40, 44, <<0, 0, 0, 0>>)
    IN  IF ~to_bytes_fits(channels, 2) THEN OverflowError
        ELSE IF ~to_bytes_fits(sample_rate, 4) THEN OverflowError
        ELSE IF ~to_bytes_fits(byte_rate, 4) THEN OverflowError
        ELSE IF ~to_bytes_fits(block_align, 2) THEN OverflowError
        ELSE IF ~to_bytes_fits(bits_per_sample, 2) THEN OverflowError
        ELSE [ok |-> TRUE, bytes |-> h13]

\* create_wav_header() as on_agent_audio_done calls it: the default arguments
DefaultHeader == create_wav_header(DefaultSampleRate, DefaultBitsPerSample, DefaultChannels).bytes

-----------------------------------------------------------------------------
(* Direct calls of create_wav_header on a range of arguments *)

SampleRates == {8000, 16000, 24000, 44100, 48000}
BitsPerSample == {8, 12, 16, 24, 32}
Channels == (1..MaxChannels) \cup {65536}

NoCall == [ok |-> FALSE, bytes |-> <<0>>]


CallCreateWavHeader ==
    /\ hdr_result = NoCall
    /\ hdr_result' = create_wav_header(hdr_args[1], hdr_args[2], hdr_args[3])
    /\ UNCHANGED <<hdr_args, script_vars>>

-----------------------------------------------------------------------------
(* The script: main(), its handlers and its keep-alive thread *)

EventNames == <<"AudioData", "AgentAudioDone", "ConversationText", "Welcome",
                "SettingsApplied", "UserStartedSpeaking", "AgentThinking",
                "AgentStartedSpeaking", "Close", "Error", "Unhandled">>

NoOptions == [encoding |-> "", sample_rate |-> 0, container |-> ""]

\* options.audio.output.* as main sets them
OutputSampleRate == 16000
AudioOutputOptions == [encoding |-> "linear16", sample_rate |-> OutputSampleRate, container |-> "wav"]

\* payloads of AudioData events
AudioChunks == {<<1>>, <<2, 3>>}

\* f"output-{file_counter}.wav"
OutputFile(n) == <<"output-", n, ".wav">>

ChunkLists == UNION {[1..n -> BOOLEAN] : n \in 0..MaxChunks}

\* `not api_key`: None and the empty string are both falsy
NotNone(key) == key = "unset"
Falsy(key) == key \in {"unset", "empty"}

\* An exception raised in the main flow reaches `except Exception as e`, which
\* prints it; main then returns.
Caught(at) ==
    /\ raised' = raised \cup {[thread |-> "main", at |-> at]}
    /\ printed' = Append(printed, [line |-> "Error", at |-> at])
    /\ pc' = "returned"

Call(op, arg, result) == [op |-> op, arg |-> arg, result |-> result]

InitScript ==
    /\ api_key \in {"unset", "empty", "set"}
    /\ pc = "getenv"
    /\ conn = "none"
    /\ options = NoOptions
    /\ handlers = {}
    /\ calls = <<>>
    /\ downloaded = FALSE
    /\ chunks = <<>>
    /\ ka = "unstarted"
    /\ ka_sends = 0
    /\ ka_sent_when = {}
    /\ ka_last = "none"
    /\ audio_buffer = <<>>
    /\ file_counter = 0
    /\ files = <<>>
    /\ events = <<>>
    /\ printed = <<>>
    /\ raised = {}

\* lines 29-32
CheckApiKey ==
    /\ pc = "getenv"
    /\ IF Falsy(api_key)
         THEN Caught("getenv")
         ELSE pc' = "client" /\ UNCHANGED <<raised, printed>>
    /\ UNCHANGED <<api_key, conn, options, handlers, calls, downloaded, chunks,
                   ka, ka_sends, ka_sent_when, ka_last, audio_buffer, file_counter,
                   files, events, hdr_args, hdr_result>>

\* lines 35-43: DeepgramClient(...) and deepgram.agent.websocket.v("1")
CreateClient ==
    /\ pc = "client"
    /\ \E ok \in BOOLEAN :
         IF ok
           THEN conn' = "created" /\ pc' = "configure" /\ UNCHANGED <<raised, printed>>
           ELSE Caught("client") /\ UNCHANGED conn
    /\ UNCHANGED <<api_key, options, handlers, calls, downloaded, chunks,
                   ka, ka_sends, ka_sent_when, ka_last, audio_buffer, file_counter,
                   files, events, hdr_args, hdr_result>>

\* lines 46-63
Configure ==
    /\ pc = "configure"
    /\ options' = AudioOutputOptions
    /\ pc' = "thread"
    /\ UNCHANGED <<api_key, conn, handlers, calls, downloaded, chunks,
                   ka, ka_sends, ka_sent_when, ka_last, audio_buffer, file_counter,
                   files, events, printed, raised, hdr_args, hdr_result>>

\* lines 73-78: the thread is started, then the handlers' state is created
StartKeepAliveThread ==
    /\ pc = "thread"
    /\ ka' = "sleeping"
    /\ audio_buffer' = <<>>
    /\ file_counter' = 0
    /\ pc' = "register"
    /\ UNCHANGED <<api_key, conn, options, handlers, calls, downloaded, chunks,
                   ka_sends, ka_sent_when, ka_last,
                   files, events, printed, raised, hdr_args, hdr_result>>

\* lines 141-151, one connection.on per step, in the order of the source
RegisterHandler ==
    /\ pc = "register"
    /\ LET n == Cardinality(handlers) + 1
       IN  /\ handlers' = handlers \cup {EventNames[n]}
           /\ calls' = Append(calls, Call("on", EventNames[n], "none"))
           /\ pc' = IF n = Len(EventNames) THEN "start" ELSE "register"
    /\ UNCHANGED <<api_key, conn, options, downloaded, chunks,
                   ka, ka_sends, ka_sent_when, ka_last, audio_buffer, file_counter,
                   files, events, printed, raised, hdr_args, hdr_result>>

StartConnectionNoReturn ==
    /\ pc = "start"
    /\ \E result \in {"true", "false", "raise"} :
         /\ calls' = Append(calls, Call("start", "options", result))
         /\ CASE result = "true" ->
                   conn' = "started" /\ pc' = "download" /\ UNCHANGED <<raised, printed>>
              [] result = "false" ->
                   /\ conn' = "failed"
                   /\ printed' = Append(printed, [line |-> "Failed to start connection", at |-> "start"])
                   /\ pc' = "download"
                   /\ UNCHANGED raised
              [] result = "raise" ->
                   conn' = "failed" /\ Caught("start")
    /\ UNCHANGED <<api_key, options, handlers, downloaded, chunks,
                   ka, ka_sends, ka_sent_when, ka_last, audio_buffer, file_counter,
                   files, events, hdr_args, hdr_result>>

\* lines 154-158: connection.start(options) returns True or False, or raises
StartConnection ==
    /\ pc = "start"
    /\ \E result \in {"true", "false", "raise"} :
         /\ calls' = Append(calls, Call("start", "options", result))
         /\ CASE result = "true" ->
                   conn' = "started" /\ pc' = "download" /\ UNCHANGED <<raised, printed>>
              [] result = "false" ->
                   /\ conn' = "failed"
                   /\ printed' = Append(printed, [line |-> "Failed to start connection", at |-> "start"])
                   /\ pc' = "returned"
                   /\ UNCHANGED raised
              [] result = "raise" ->
                   conn' = "failed" /\ Caught("start")
    /\ UNCHANGED <<api_key, options, handlers, downloaded, chunks,
                   ka, ka_sends, ka_sent_when, ka_last, audio_buffer, file_counter,
                   files, events, hdr_args, hdr_result>>

\* lines 161-166: requests.get and the skipped 44 bytes; the response then
\* yields some chunks (TRUE: a chunk with bytes, FALSE: an empty one)
Download ==
    /\ pc = "download"
    /\ downloaded' = TRUE
    /\ \/ \E cs \in ChunkLists :
            chunks' = cs /\ pc' = "stream" /\ UNCHANGED <<raised, printed>>
       \/ Caught("download") /\ UNCHANGED chunks
    /\ UNCHANGED <<api_key, conn, options, handlers, calls,
                   ka, ka_sends, ka_sent_when, ka_last, audio_buffer, file_counter,
                   files, events, hdr_args, hdr_result>>

\* lines 167-170: one iteration of the for loop
StreamChunk ==
    /\ pc = "stream"
    /\ chunks # <<>>
    /\ chunks' = Tail(chunks)
    /\ IF Head(chunks)
         THEN \E result \in {"true", "false", "raise"} :
                /\ calls' = Append(calls, Call("send", "chunk", result))
                /\ IF result = "raise"
                     THEN Caught("send")
                     ELSE UNCHANGED <<pc, raised, printed>>
         ELSE UNCHANGED <<calls, pc, raised, printed>>
    /\ UNCHANGED <<api_key, conn, options, handlers, downloaded,
                   ka, ka_sends, ka_sent_when, ka_last, audio_buffer, file_counter,
                   files, events, hdr_args, hdr_result>>

\* lines 172-174: the loop is over, time.sleep(30)
Wait ==
    /\ pc = "stream"
    /\ chunks = <<>>
    /\ calls' = Append(calls, Call("sleep", "30", "none"))
    /\ pc' = "finish"
    /\ UNCHANGED <<api_key, conn, options, handlers, downloaded, chunks,
                   ka, ka_sends, ka_sent_when, ka_last, audio_buffer, file_counter,
                   files, events, printed, raised, hdr_args, hdr_result>>

\* lines 177-178
Finish ==
    /\ pc = "finish"
    /\ conn' = "finished"
    /\ \E result \in {"none", "raise"} :
         /\ calls' = Append(calls, Call("finish", "none", result))
         /\ IF result = "raise"
              THEN Caught("finish")
              ELSE pc' = "returned" /\ UNCHANGED <<raised, printed>>
    /\ UNCHANGED <<api_key, options, handlers, downloaded, chunks,
                   ka, ka_sends, ka_sent_when, ka_last, audio_buffer, file_counter,
                   files, events, hdr_args, hdr_result>>

\* lines 209-210: main has returned and the process ends; the daemon thread
\* ends with it
Exit ==
    /\ pc = "returned"
    /\ pc' = "exited"
    /\ UNCHANGED <<api_key, conn, options, handlers, calls, downloaded, chunks,
                   ka, ka_sends, ka_sent_when, ka_last, audio_buffer, file_counter,
                   files, events, printed, raised, hdr_args, hdr_result>>

\* lines 66-70: one iteration of the loop of send_keep_alive. The thread sends
\* on the connection whatever its state; an exception of send is caught by
\* nothing in the thread and ends it.
SendKeepAlive ==
    /\ ka = "sleeping"
    /\ pc # "exited"
    /\ ka_sends < MaxKeepAlives
    /\ ka_sends' = ka_sends + 1
    /\ ka_sent_when' = ka_sent_when \cup {conn}
    /\ \E result \in {"true", "false", "raise"} :
         /\ ka_last' = result
         /\ IF result = "raise"
              THEN /\ ka' = "dead"
                   /\ raised' = raised \cup {[thread |-> "keepalive", at |-> "keepalive_send"]}
              ELSE UNCHANGED <<ka, raised>>
    /\ UNCHANGED <<api_key, pc, conn, options, handlers, calls, downloaded, chunks,
                   audio_buffer, file_counter,
                   files, events, printed, hdr_args, hdr_result>>

\* the connection dispatches events to the registered handlers while it is open
Dispatching(name) ==
    /\ conn = "started"
    /\ pc # "exited"
    /\ name \in handlers
    /\ Len(events) < MaxEvents

\* lines 80-83
on_audio_data ==
    /\ Dispatching("AudioData")
    /\ \E data \in AudioChunks :
         /\ audio_buffer' = audio_buffer \o data
         /\ events' = Append(events, [type |-> "AudioData", data |-> data])
    /\ UNCHANGED <<api_key, pc, conn, options, handlers, calls, downloaded, chunks,
                   ka, ka_sends, ka_sent_when, ka_last, file_counter,
                   files, printed, raised, hdr_args, hdr_result>>

on_agent_audio_done_no_reset ==
    /\ Dispatching("AgentAudioDone")
    /\ files' = Append(files, [name |-> OutputFile(file_counter),
                               data |-> DefaultHeader \o audio_buffer])
    /\ file_counter' = file_counter + 1
    /\ events' = Append(events, [type |-> "AgentAudioDone", data |-> <<>>])
    /\ UNCHANGED <<api_key, pc, conn, options, handlers, calls, downloaded, chunks,
                   ka, ka_sends, ka_sent_when, ka_last, audio_buffer,
                   printed, raised, hdr_args, hdr_result>>

\* lines 85-92
on_agent_audio_done ==
    /\ Dispatching("AgentAudioDone")
    /\ files' = Append(files, [name |-> OutputFile(file_counter),
                               data |-> DefaultHeader \o audio_buffer])
    /\ audio_buffer' = <<>>
    /\ file_counter' = file_counter + 1
    /\ events' = Append(events, [type |-> "AgentAudioDone", data |-> <<>>])
    /\ UNCHANGED <<api_key, pc, conn, options, handlers, calls, downloaded, chunks,
                   ka, ka_sends, ka_sent_when, ka_last,
                   printed, raised, hdr_args, hdr_result>>

-----------------------------------------------------------------------------
(* Specifications *)

Init ==
    /\ InitScript
    /\ hdr_args = <<DefaultSampleRate, DefaultBitsPerSample, DefaultChannels>>
    /\ hdr_result = NoCall

Next ==
    \/ CheckApiKey
    \/ CreateClient
    \/ Configure
    \/ StartKeepAliveThread
    \/ RegisterHandler
    \/ StartConnection
    \/ Download
    \/ StreamChunk
    \/ Wait
    \/ Finish
    \/ Exit
    \/ SendKeepAlive
    \/ on_audio_data
    \/ on_agent_audio_done

Spec == Init /\ [][Next]_vars

InitHeader ==
    /\ InitScript
    /\ api_key = "unset"
    /\ hdr_args \in SampleRates \X BitsPerSample \X Channels
    /\ hdr_result = NoCall

NextHeader == CallCreateWavHeader

SpecHeader == InitHeader /\ [][NextHeader]_vars

-----------------------------------------------------------------------------
(* Properties of create_wav_header, checked under SpecHeader *)

\* the arguments for which every to_bytes of the function succeeds
ValidArgs ==
    LET sample_rate == hdr_args[1]
        bits_per_sample == hdr_args[2]
        channels == hdr_args[3]
    IN  /\ channels \in 0..65535
        /\ bits_per_sample \in 0..65535
        /\ sample_rate >= 0
        /\ channels * (bits_per_sample \div 8) \in 0..65535

Returned == hdr_result # NoCall

Field(a, b) == from_bytes(Slice(hdr_result.bytes, a, b))

\* C1: for valid arguments the function returns exactly 44 bytes with "RIFF"
\* at 0-3, "WAVE" at 8-11, "fmt " at 12-15, fmt size 16 at 16-19, format code
\* 1 at 20-21, "data" at 36-39, and zero in both size fields (4-7 and 40-43).
C1_HeaderFixedFields ==
    (Returned /\ ValidArgs) =>
        /\ hdr_result.ok
        /\ Len(hdr_result.bytes) = 44
        /\ \A i \in 1..44 : hdr_result.bytes[i] \in 0..255
        /\ Slice(hdr_result.bytes, 0, 4) = <<82, 73, 70, 70>>
        /\ Slice(hdr_result.bytes, 8, 12) = <<87, 65, 86, 69>>
        /\ Slice(hdr_result.bytes, 12, 16) = <<102, 109, 116, 32>>
        /\ Field(16, 20) = 16
        /\ Field(20, 22) = 1
        /\ Slice(hdr_result.bytes, 36, 40) = <<100, 97, 116, 97>>
        /\ Slice(hdr_result.bytes, 4, 8) = <<0, 0, 0, 0>>
        /\ Slice(hdr_result.bytes, 40, 44) = <<0, 0, 0, 0>>

C1_Witness ==
    /\ Returned /\ ValidArgs /\ hdr_result.ok
    /\ hdr_args = <<44100, 24, 2>>

\* C2 as stated: the byte-rate field is sample_rate x channels x
\* bits_per_sample / 8 and the block-align field channels x bits_per_sample / 8
\* (exact division, stated without dividing), and the channel, sample-rate and
\* bits-per-sample fields hold the arguments.
C2_ExactDivision ==
    (Returned /\ ValidArgs) =>
        /\ hdr_result.ok
        /\ 8 * Field(28, 32) = hdr_args[1] * hdr_args[3] * hdr_args[2]
        /\ 8 * Field(32, 34) = hdr_args[3] * hdr_args[2]
        /\ Field(22, 24) = hdr_args[3]
        /\ Field(24, 28) = hdr_args[1]
        /\ Field(34, 36) = hdr_args[2]

\* C2 amended: the byte-rate field is sample_rate x channels x
\* floor(bits_per_sample / 8) and the block-align field channels x
\* floor(bits_per_sample / 8); the channel, sample-rate and bits-per-sample
\* fields hold the arguments; (24000, 16, 1) gives 48000 and 2.
C2_FloorDivision ==
    (Returned /\ ValidArgs) =>
        /\ hdr_result.ok
        /\ Field(28, 32) = hdr_args[1] * hdr_args[3] * (hdr_args[2] \div 8)
        /\ Field(32, 34) = hdr_args[3] * (hdr_args[2] \div 8)
        /\ Field(22, 24) = hdr_args[3]
        /\ Field(24, 28) = hdr_args[1]
        /\ Field(34, 36) = hdr_args[2]
        /\ hdr_args = <<24000, 16, 1>> => Field(28, 32) = 48000 /\ Field(32, 34) = 2

C2_Witness ==
    /\ Returned /\ ValidArgs /\ hdr_result.ok
    /\ hdr_args = <<24000, 12, 2>>
    /\ Field(28, 32) = 48000
    /\ Field(32, 34) = 2

-----------------------------------------------------------------------------
(* Properties of the script, checked under Spec *)

RECURSIVE Segments(_)
\* the audio of the events split at each AgentAudioDone: the segments that
\* were closed by one, and the bytes received after the last
Segments(evs) ==
    IF evs = <<>> THEN [done |-> <<>>, pending |-> <<>>]
    ELSE LET r == Segments(SubSeq(evs, 1, Len(evs) - 1))
             e == evs[Len(evs)]
         IN  IF e.type = "AudioData"
               THEN [done |-> r.done, pending |-> r.pending \o e.data]
               ELSE [done |-> Append(r.done, r.pending), pending |-> <<>>]

\* C4: the k-th AgentAudioDone (from 0) writes output-k.wav = the 44-byte
\* header followed by exactly the audio received since the previous
\* AgentAudioDone, in order; afterwards the accumulator is empty and the
\* counter is k+1; no file is written twice and what was received after the
\* last AgentAudioDone is what the accumulator holds.
C4_FlushPerAudioDone ==
    LET segs == Segments(events)
    IN  /\ Len(files) = Len(segs.done)
        /\ file_counter = Len(segs.done)
        /\ audio_buffer = segs.pending
        /\ \A k \in DOMAIN files :
             /\ files[k].name = <<"output-", k - 1, ".wav">>
             /\ Len(files[k].data) = 44 + Len(segs.done[k])
             /\ SubSeq(files[k].data, 45, Len(files[k].data)) = segs.done[k]
             /\ SubSeq(files[k].data, 1, 4) = <<82, 73, 70, 70>>
        /\ \A j, k \in DOMAIN files : files[j].name = files[k].name => j = k
        /\ (events # <<>> /\ events[Len(events)].type = "AgentAudioDone")
             => audio_buffer = <<>>

C4_Witness ==
    /\ Len(files) = 2
    /\ Len(files[1].data) = 46
    /\ Len(files[2].data) = 45
    /\ audio_buffer = <<>>
    /\ file_counter = 2

\* C5: after any keep-alive send, successful or failed, the loop goes on for
\* as long as the process runs (so that another send follows).
C5_LoopGoesOnAfterAnySend ==
    (ka_last # "none" /\ pc # "exited") => ka = "sleeping"

\* C6: with DEEPGRAM_API_KEY unset or empty, main aborts before any network
\* activity: no client or connection, no keep-alive thread, no handler, no
\* start / send / finish, no download; the only outcome is the printed error.
C6_NoKeyAborts ==
    api_key # "set" =>
        /\ conn = "none"
        /\ options = NoOptions
        /\ ka = "unstarted"
        /\ ka_sends = 0
        /\ handlers = {}
        /\ calls = <<>>
        /\ ~downloaded
        /\ files = <<>>
        /\ pc \in {"getenv", "returned", "exited"}
        /\ pc # "getenv" => printed = <<[line |-> "Error", at |-> "getenv"]>>

C6_Witness ==
    /\ api_key = "empty"
    /\ pc = "exited"
    /\ printed = <<[line |-> "Error", at |-> "getenv"]>>

\* C7: every error raised at any step (the keep-alive send included) ends in
\* main's handler, which prints it; none escapes it.
C7_AllErrorsCaughtAndPrinted ==
    \A r \in raised :
        \E i \in DOMAIN printed : printed[i] = [line |-> "Error", at |-> r.at]

CallsOf(op) == {i \in DOMAIN calls : calls[i].op = op}

\* C8: the eleven handlers are registered before connection.start; chunks are
\* sent only after connection.start returned success; connection.finish is
\* called at most once, after every chunk and the 30-unit wait, and the main
\* flow calls nothing after it; if connection.start does not succeed, no chunk
\* is sent and connection.finish is never called.
C8_MainFlowOrder ==
    /\ Cardinality(CallsOf("start")) <= 1
    /\ Cardinality(CallsOf("finish")) <= 1
    /\ \A s \in CallsOf("start") :
         /\ {calls[j].arg : j \in {i \in CallsOf("on") : i < s}}
              = {EventNames[n] : n \in 1..11}
         /\ \A j \in CallsOf("on") : j < s
         /\ calls[s].result # "true" =>
              CallsOf("send") = {} /\ CallsOf("finish") = {} /\ ~downloaded
    /\ \A i \in CallsOf("send") :
         \E s \in CallsOf("start") : s < i /\ calls[s].result = "true"
    /\ \A f \in CallsOf("finish") :
         /\ f = Len(calls)
         /\ chunks = <<>>
         /\ calls[f - 1].op = "sleep"
         /\ \E s \in CallsOf("start") : s < f /\ calls[s].result = "true"

C8_Witness ==
    /\ pc = "exited"
    /\ Cardinality(CallsOf("send")) = 2
    /\ CallsOf("finish") # {}

\* C9: no keep-alive send happens before connection.start has returned
\* success, after it has reported failure, or after connection.finish.
C9_KeepAliveOnlyOnActiveConnection ==
    ka_sent_when \subseteq {"started"}

\* C10: the header of every output file declares the format configured for the
\* agent's audio output: 16 bits per sample at options.audio.output.sample_rate,
\* with the byte rate that goes with them.
C10_HeaderMatchesOutputSettings ==
    \A k \in DOMAIN files :
        LET h == SubSeq(files[k].data, 1, 44)
        IN  /\ options.encoding = "linear16"
            /\ from_bytes(Slice(h, 34, 36)) = 16
            /\ from_bytes(Slice(h, 24, 28)) = options.sample_rate
            /\ from_bytes(Slice(h, 28, 32))
                 = options.sample_rate * from_bytes(Slice(h, 22, 24)) * 2

====
